---- MODULE Spec2Model ----
(***************************************************************************)
(* Workflow core of the Java peer code review trainer:                     *)
(*   workflow/node.py       - generate / evaluate / regenerate / analyze   *)
(*   workflow/manager.py    - submit_review                                *)
(*   workflow/conditions.py - the two decision functions                   *)
(*   core/student_response_evaluator.py - the review grader                *)
(* The WorkflowState object is the record `state`; every node is an        *)
(* operator from a state (and the collaborators' answers) to the value the *)
(* node returns, and every action applies one node to `state`.             *)
(***************************************************************************)
EXTENDS Integers, Sequences, FiniteSets, TLC

VARIABLES
    state,            \* the WorkflowState object threaded through the calls
    generator_llm,    \* code_generator.llm is set (node.py:178)
    grader_llm,       \* evaluator.llm is set (student_response_evaluator.py:57)
    generator_calls,  \* code-generation LLM calls made by the driven loop
    evaluator_calls,  \* CodeEvaluator calls made by the driven loop
    last,             \* the entry point called last, how it ended, its grader calls
    users_row,        \* the user's row of the users table: reviews_completed, score
    session_state     \* the stats keys held in st.session_state

vars == <<state, generator_llm, grader_llm, generator_calls, evaluator_calls, last,
          users_row, session_state>>

----------------------------------------------------------------------------
(* Bounds *)

MaxGeneratorCalls == 5      \* generator calls explored in one generation loop
MaxEvaluatorCalls == 4      \* evaluator calls explored in one generation loop
MaxSubmissions == 2         \* review submissions explored
MaxIterationsExplored == 2  \* largest max_iterations explored
MaxSelected == 2            \* length of the specific-error selection explored
MaxAvailable == 7           \* size of the largest error catalog explored
MaxReported == 1            \* longest found/missing list the evaluator reports
MaxStatsWrites == 2         \* writes to the user's row explored

(* Program constants *)

DefaultMaxEvaluationAttempts == 3
EasyErrorCount == 2
MediumErrorCount == 4
HardErrorCount == 6
MinIdentifiedPercentage == 60
DefaultMaxIterations == 3

----------------------------------------------------------------------------
(* Values *)

None == [is_none |-> TRUE]
NoError == "None"

Min(a, b) == IF a < b THEN a ELSE b
Max(a, b) == IF a > b THEN a ELSE b

\* the list of the first n error specs of the catalog, each with a name
Names(n) == [i \in 1..n |-> i]

Difficulties == {"easy", "medium", "hard"}

\* What the code-generation LLM answers: the text of the first block of
\* each fence kind in the response ("" when the response has no such block),
\* or a falsy response.
NoResponse == [falsy |-> TRUE, annotated |-> "", clean |-> "", java |-> ""]
Responses ==
    { NoResponse,
      [falsy |-> FALSE, annotated |-> "",  clean |-> "",  java |-> ""],
      [falsy |-> FALSE, annotated |-> "A", clean |-> "C", java |-> ""] }

GeneratorOutcomes == {[raises |-> TRUE, response |-> NoResponse]}
                     \cup {[raises |-> FALSE, response |-> r] : r \in Responses}

\* What ErrorCatalog.get_errors_for_llm finds: it raises, or the selected
\* categories hold `available` errors.
CatalogSizes == {0, 1, MaxAvailable}
CatalogOutcomes == {[raises |-> TRUE, available |-> 0]}
                   \cup {[raises |-> FALSE, available |-> n] : n \in CatalogSizes}

\* What CodeEvaluator.evaluate_code returns
ReportedLists == {<<>>, Names(MaxReported)}
EvaluatorOutcomes ==
    {[kind |-> "raises", found |-> <<>>, missing |-> <<>>, extra |-> <<>>],
     [kind |-> "nondict", found |-> <<>>, missing |-> <<>>, extra |-> <<>>]}
    \cup {[kind |-> "dict", found |-> f, missing |-> m, extra |-> <<>>] :
            f \in ReportedLists, m \in ReportedLists}
    \cup {[kind |-> "dict", found |-> <<>>, missing |-> m, extra |-> Names(1)] :
            m \in ReportedLists}

----------------------------------------------------------------------------
(* What a node call gives back: the state it returns, how it ended         *)
(* ("returned", "early" for a guard's early return, "caught" when the      *)
(* except clause ran), what raised ("none" when nothing did), the          *)
(* collaborator calls it made, and whether the generator answered with     *)
(* text from which no code block could be extracted.                       *)

Ret(s, how, raised, gen, ev, no_code) ==
    [state |-> s, outcome |-> how, raised |-> raised,
     generator_calls |-> gen, evaluator_calls |-> ev, no_code |-> no_code]

\* an except clause that returned the state without recording the message:
\* C9_CollaboratorFailureCaught tells it from the except clauses of the nodes
C9_CaughtSilently(s, message, raised, gen, ev) ==
    Ret(s, "caught", raised, gen, ev, FALSE)

\* the except clauses of the nodes (node.py:156-159, 223-226, 358-361):
\* the message is stored in state.error and the state is returned
Caught(s, message, raised, gen, ev) ==
    Ret([s EXCEPT !.error = message], "caught", raised, gen, ev, FALSE)

----------------------------------------------------------------------------
(* utils/code_utils.py *)

\* strip the "// ERROR:" lines of an annotated block
StripErrorComments(code) == IF code = "" THEN "" ELSE "stripped " \o code

extract_both_code_versions(response) ==
    IF response.falsy THEN [annotated_code |-> "", clean_code |-> ""]
    ELSE LET annotated_code == IF response.annotated # "" THEN response.annotated
                                ELSE response.java
             clean_code == IF annotated_code # "" /\ response.clean = ""
                           THEN StripErrorComments(annotated_code)
                           ELSE response.clean
         IN  [annotated_code |-> annotated_code, clean_code |-> clean_code]

\* node.py:104 passes the difficulty string as `state`: a string has none of
\* the attributes looked up, so the map is read with the default argument
\* difficulty_level = "medium".
difficulty_map(d) ==
    CASE d = "easy" -> EasyErrorCount
      [] d = "medium" -> MediumErrorCount
      [] d = "hard" -> HardErrorCount
      [] OTHER -> MediumErrorCount

get_error_count_from_state(state_arg) == difficulty_map("medium")

----------------------------------------------------------------------------
(* data/json_error_repository.py *)

adjusted_count(count, difficulty) ==
    CASE difficulty = "easy" -> Max(2, count - 2)
      [] difficulty = "medium" -> count
      [] difficulty = "hard" -> count + 2
      [] OTHER -> count

\* category-based selection: all the errors collected from the categories,
\* or a sample of adjusted_count of them when there are more
get_errors_for_llm(available, count, difficulty) ==
    IF available > adjusted_count(count, difficulty)
    THEN Names(adjusted_count(count, difficulty))
    ELSE Names(available)

----------------------------------------------------------------------------
(* workflow/node.py *)

CodeSnippet(code, clean_code, raw_errors, expected_error_count) ==
    [code |-> code, clean_code |-> clean_code, raw_errors |-> raw_errors,
     expected_error_count |-> expected_error_count]

\* the errors of code_snippet.raw_errors["java_errors"] that carry a name
_extract_requested_errors(s) ==
    IF s.code_snippet = None THEN <<>>
    ELSE SelectSeq(s.code_snippet.raw_errors, LAMBDA e : e \in Nat \ {0})

\* the category-mode branch of generate_code_node, lines 103-121: the
\* selected errors and the count recorded for them
SelectByCategory(s, available) ==
    LET required_error_count == get_error_count_from_state(s.difficulty_level)
        got == get_errors_for_llm(available, required_error_count, s.difficulty_level)
    IN  IF Len(got) < required_error_count
        THEN [selected_errors |-> got, original_error_count |-> Len(got)]
        ELSE IF Len(got) > required_error_count
        THEN [selected_errors |-> SubSeq(got, 1, required_error_count),
              original_error_count |-> required_error_count]
        ELSE [selected_errors |-> got, original_error_count |-> required_error_count]

\* lines 127-154: the generator call and what is stored from it
GenerateWith(s1, sel, generator) ==
    IF generator.raises
    THEN Caught(s1, "error generating code", "generator", 1, 0)
    ELSE LET versions == extract_both_code_versions(generator.response)
         IN  Ret([s1 EXCEPT
                    !.original_error_count = sel.original_error_count,
                    !.code_snippet = CodeSnippet(versions.annotated_code,
                                                 versions.clean_code,
                                                 sel.selected_errors,
                                                 sel.original_error_count),
                    !.current_step = "evaluate"],
                 "returned", "none", 1, 0, versions.annotated_code = "")

\* a reset that also clears the error of an earlier call:
\* C26_ErrorIsSticky tells it from lines 61-64
C26_ResetClearsError(s) ==
    [s EXCEPT !.evaluation_attempts = 0,
              !.evaluation_result = None,
              !.code_generation_feedback = None,
              !.error = NoError]

\* lines 61-64: the reset for a fresh generation
ResetForGeneration(s) ==
    [s EXCEPT !.evaluation_attempts = 0,
              !.evaluation_result = None,
              !.code_generation_feedback = None]

generate_code_node(s, catalog, generator) ==
    LET s1 == ResetForGeneration(s)
        using_specific_errors == Len(s.selected_specific_errors) > 0
    IN  IF using_specific_errors
        THEN GenerateWith(s1, [selected_errors |-> s.selected_specific_errors,
                               original_error_count |-> Len(s.selected_specific_errors)],
                          generator)
        ELSE IF ~s.selected_error_categories
        THEN Ret([s1 EXCEPT !.error = "no_categories"], "early", "none", 0, 0, FALSE)
        ELSE IF catalog.raises
        THEN Caught(s1, "error generating code", "catalog", 0, 0)
        ELSE GenerateWith(s1, SelectByCategory(s, catalog.available), generator)

\* line 209 reads the name selected_errors, which regenerate_code_node never
\* binds: building the CodeSnippet raises NameError
SelectedErrorsBound == FALSE

regenerate_code_node(s, has_llm, catalog, generator) ==
    IF has_llm
    THEN IF generator.raises
         THEN Caught(s, "Error regenerating code", "generator", 1, 0)
         ELSE IF ~SelectedErrorsBound
         THEN Caught(s, "Error regenerating code", "NameError", 1, 0)
         ELSE LET versions == extract_both_code_versions(generator.response)
              IN  Ret([s EXCEPT
                         !.code_snippet = CodeSnippet(versions.annotated_code,
                                                      versions.clean_code,
                                                      _extract_requested_errors(s),
                                                      0),
                         !.current_step = "evaluate"],
                      "returned", "none", 1, 0, versions.annotated_code = "")
    ELSE generate_code_node(s, catalog, generator)

\* lines 244-255: the count evaluate_code_node works with, written back to
\* the state when the state had none
OriginalCountForEvaluation(s) ==
    LET from_state == s.original_error_count
        from_snippet == IF from_state = 0
                        THEN s.code_snippet.expected_error_count
                        ELSE from_state
    IN  IF from_snippet = 0 THEN Len(_extract_requested_errors(s)) ELSE from_snippet

\* an evaluation result that is valid only without missing and without
\* extra errors: C27_DecisionAgreesWithStep tells it from lines 264-290
C27_ValidNeedsNoExtra(raw, requested_errors, original_error_count) ==
    IF raw.kind # "dict"
    THEN [found_errors |-> <<>>,
          missing_errors |-> requested_errors,
          extra_errors |-> <<>>,
          valid |-> FALSE,
          original_error_count |-> original_error_count]
    ELSE [found_errors |-> raw.found,
          missing_errors |-> raw.missing,
          extra_errors |-> raw.extra,
          valid |-> ~(Len(raw.missing) > 0) /\ ~(Len(raw.extra) > 0),
          original_error_count |-> original_error_count]

\* lines 264-290: the evaluation result stored for an evaluator answer
EvaluationResult(raw, requested_errors, original_error_count) ==
    IF raw.kind # "dict"
    THEN [found_errors |-> <<>>,
          missing_errors |-> requested_errors,
          extra_errors |-> <<>>,
          valid |-> FALSE,
          original_error_count |-> original_error_count]
    ELSE [found_errors |-> raw.found,
          missing_errors |-> raw.missing,
          extra_errors |-> raw.extra,
          valid |-> ~(Len(raw.missing) > 0),
          original_error_count |-> original_error_count]

\* lines 338-354
StepAfterEvaluation(evaluation_result, evaluation_attempts, max_evaluation_attempts) ==
    LET needs_regeneration == Len(evaluation_result.missing_errors) > 0
    IN  IF evaluation_result.valid THEN "review"
        ELSE IF needs_regeneration /\ evaluation_attempts < max_evaluation_attempts
        THEN "regenerate"
        ELSE "review"

\* a counter that moved by two: C6_AttemptsPerStoredResult tells it from
\* line 294
C6_IncrementTwice(evaluation_attempts) == evaluation_attempts + 2

\* line 294
IncrementAttempts(evaluation_attempts) == evaluation_attempts + 1

\* lines 301-336: the regeneration prompt built from the result
RegenerationPrompt(evaluation_result) ==
    [missing_errors |-> evaluation_result.missing_errors,
     found_errors |-> evaluation_result.found_errors]

evaluate_code_node(s, raw, prompt_raises) ==
    IF s.code_snippet = None
    THEN Ret([s EXCEPT !.error = "no_code_snippet_evaluation"],
             "early", "none", 0, 0, FALSE)
    ELSE
    LET requested_errors == _extract_requested_errors(s)
        original_error_count == OriginalCountForEvaluation(s)
        s1 == [s EXCEPT !.original_error_count = original_error_count]
    IN  IF raw.kind = "raises"
        THEN Caught(s1, "Error evaluating code", "evaluator", 0, 1)
        ELSE
        LET evaluation_result ==
                EvaluationResult(raw, requested_errors, original_error_count)
            s2 == [s1 EXCEPT !.evaluation_result = evaluation_result,
                             !.evaluation_attempts = IncrementAttempts(@)]
        IN  IF prompt_raises
            THEN Caught(s2, "Error evaluating code", "prompt", 0, 1)
            ELSE Ret([s2 EXCEPT
                        !.code_generation_feedback =
                            RegenerationPrompt(evaluation_result),
                        !.current_step =
                            StepAfterEvaluation(evaluation_result,
                                                s2.evaluation_attempts,
                                                s2.max_evaluation_attempts)],
                     "returned", "none", 0, 1, FALSE)

----------------------------------------------------------------------------
(* core/student_response_evaluator.py *)

\* a percentage n/d * 100, kept exact
Percent(n, d) == [n |-> 100 * n, d |-> d]
PctGeq(p, k) == p.n >= k * p.d
PctEq(p, k) == p.n = k * p.d

\* A review analysis is a dict: `keys` is the set of keys it has, the other
\* fields are the values stored under them.
EmptyAnalysis ==
    [keys |-> {}, identified_count |-> 0, total_problems |-> 0,
     accuracy_percentage |-> Percent(0, 1), identified_percentage |-> Percent(0, 1),
     review_sufficient |-> FALSE, original_error_count |-> 0]

_fallback_evaluation(known_problems) ==
    [EmptyAnalysis EXCEPT
        !.keys = {"identified_problems", "missed_problems", "accuracy_percentage",
                  "identified_count", "total_problems", "review_sufficient"},
        !.accuracy_percentage = Percent(0, 1),
        !.identified_count = 0,
        !.total_problems = Len(known_problems),
        !.review_sufficient = FALSE]

_process_enhanced_analysis(analysis_data, known_problems) ==
    LET identified_count == analysis_data.identified_count
        total_problems == IF analysis_data.has_total THEN analysis_data.total_problems
                          ELSE Len(known_problems)
        identified_percentage == IF total_problems > 0
                                 THEN Percent(identified_count, total_problems)
                                 ELSE Percent(1, 1)
        review_sufficient == IF analysis_data.has_sufficient
                             THEN analysis_data.review_sufficient
                             ELSE PctGeq(identified_percentage, MinIdentifiedPercentage)
    IN  [EmptyAnalysis EXCEPT
            !.keys = {"identified_problems", "missed_problems", "identified_count",
                      "total_problems", "accuracy_percentage", "review_sufficient"},
            !.identified_count = identified_count,
            !.total_problems = total_problems,
            !.accuracy_percentage = identified_percentage,
            !.review_sufficient = review_sufficient]

\* the fields _extract_json_from_text fills in by hand when the response
\* holds no JSON it can parse (lines 253-350)
ManualExtraction ==
    [kind |-> "parsed", identified_count |-> 0, has_total |-> TRUE,
     total_problems |-> 0, has_sufficient |-> TRUE, review_sufficient |-> FALSE]

_extract_json_from_text(grader) ==
    IF grader.kind = "unparseable" THEN ManualExtraction ELSE grader

evaluate_review(has_llm, known_problems, grader) ==
    IF ~has_llm THEN _fallback_evaluation(known_problems)
    ELSE IF grader.kind \in {"raises", "empty"}
    THEN _fallback_evaluation(known_problems)
    ELSE _process_enhanced_analysis(_extract_json_from_text(grader), known_problems)

----------------------------------------------------------------------------
(* workflow/node.py, the review loop *)

\* What a review call gives back: as Ret, with the grader calls made and
\* the review_sufficient of the analysis evaluate_review returned (FALSE
\* when it was not called)
RRet(s, how, raised, graded, reported) ==
    [state |-> s, outcome |-> how, raised |-> raised, grader_calls |-> graded,
     reported |-> reported]

ReviewAttempt(student_review, iteration_number) ==
    [student_review |-> student_review, iteration_number |-> iteration_number,
     analysis |-> EmptyAnalysis, targeted_guidance |-> ""]

\* lines 417-439: the grader's analysis rewritten with the session's count
WithOriginalCount(analysis, original_error_count) ==
    IF original_error_count > 0
    THEN LET identified_count ==
                 IF "identified_count" \in analysis.keys
                 THEN analysis.identified_count ELSE 0
             percentage == Percent(identified_count, original_error_count)
             a1 == [analysis EXCEPT
                      !.keys = @ \cup {"total_problems", "original_error_count",
                                       "identified_percentage", "accuracy_percentage"},
                      !.total_problems = original_error_count,
                      !.original_error_count = original_error_count,
                      !.identified_percentage = percentage,
                      !.accuracy_percentage = percentage]
         IN  IF identified_count = original_error_count
             THEN [a1 EXCEPT !.keys = @ \cup {"review_sufficient"},
                             !.review_sufficient = TRUE]
             ELSE a1
    ELSE analysis

\* an analysis step that forgot to move on to the next iteration:
\* C16_IterationPerCompletedAnalysis tells it from line 464
C16_IterationKept(current_iteration) == current_iteration

\* line 464
IncrementIteration(current_iteration) == current_iteration + 1

\* a guidance condition that is off by one, asking for guidance on the last
\* allowed iteration too: C17_GuidanceIffNotSufficientAndIterationsLeft tells
\* it from line 452
C17_GuidanceOnLastIteration(review_sufficient, current_iteration, max_iterations) ==
    ~review_sufficient /\ current_iteration <= max_iterations

\* line 452
WantsGuidance(review_sufficient, current_iteration, max_iterations) ==
    ~review_sufficient /\ current_iteration < max_iterations

SetLatest(history, attempt) == [history EXCEPT ![Len(history)] = attempt]

analyze_review_node(s, evaluator_attached, has_llm, grader, guidance_raises) ==
    IF Len(s.review_history) = 0
    THEN RRet([s EXCEPT !.error = "no_review_submitted"], "early", "none", 0, FALSE)
    ELSE IF s.code_snippet = None
    THEN RRet([s EXCEPT !.error = "no_code_snippet_available"], "early", "none", 0, FALSE)
    ELSE IF ~evaluator_attached
    THEN RRet([s EXCEPT !.error = "student_evaluator_not_initialized"], "early", "none", 0, FALSE)
    ELSE
    LET latest_review == s.review_history[Len(s.review_history)]
        known_problems == IF s.evaluation_result # None
                          THEN s.evaluation_result.found_errors ELSE <<>>
        graded == IF has_llm THEN 1 ELSE 0
        graded_analysis == evaluate_review(has_llm, known_problems, grader)
        reported == "review_sufficient" \in graded_analysis.keys
                    /\ graded_analysis.review_sufficient
        analysis == WithOriginalCount(graded_analysis, s.original_error_count)
        review_sufficient == IF "review_sufficient" \in analysis.keys
                             THEN analysis.review_sufficient ELSE FALSE
        s1 == [s EXCEPT
                 !.review_history =
                     SetLatest(@, [latest_review EXCEPT !.analysis = analysis]),
                 !.review_sufficient = review_sufficient]
        wants_guidance == WantsGuidance(review_sufficient, s.current_iteration,
                                        s.max_iterations)
    IN  IF wants_guidance /\ guidance_raises
        THEN RRet([s1 EXCEPT !.error = "Error analyzing review"], "caught", "guidance", graded,
                  reported)
        ELSE
        LET s2 == IF wants_guidance
                  THEN [s1 EXCEPT !.review_history =
                            SetLatest(@, [@[Len(@)] EXCEPT
                                            !.targeted_guidance = "guidance"])]
                  ELSE s1
        IN  RRet([s2 EXCEPT !.current_iteration = IncrementIteration(@),
                            !.current_step = "analyze"], "returned", "none", graded,
                 reported)

----------------------------------------------------------------------------
(* workflow/manager.py *)

\* line 243 calls self.evaluator.generate_comparison_report, a method
\* StudentResponseEvaluator does not have (the function of that name is in
\* utils/code_utils.py): with the evaluator the manager always attaches the
\* call raises AttributeError and the except clause of lines 299-305 stores
\* the error text as the report
EvaluatorHasComparisonReport == FALSE

\* lines 200-305
_generate_review_feedback(s, report_raises) ==
    IF Len(s.review_history) = 0 THEN s
    ELSE IF ~(s.comparison_report = "" /\ s.evaluation_result # None) THEN s
    ELSE
    LET latest_review == s.review_history[Len(s.review_history)]
        adds_count == s.original_error_count > 0
                      /\ "original_error_count" \notin latest_review.analysis.keys
        a1 == IF adds_count
              THEN [latest_review.analysis EXCEPT
                      !.keys = @ \cup {"original_error_count"},
                      !.original_error_count = s.original_error_count]
              ELSE latest_review.analysis
        key_error == adds_count /\ "identified_count" \notin a1.keys
        a2 == IF adds_count /\ ~key_error
              THEN [a1 EXCEPT
                      !.keys = @ \cup {"identified_percentage", "accuracy_percentage"},
                      !.identified_percentage =
                          Percent(a1.identified_count, s.original_error_count),
                      !.accuracy_percentage =
                          Percent(a1.identified_count, s.original_error_count)]
              ELSE a1
        s1 == [s EXCEPT !.review_history =
                   SetLatest(@, [latest_review EXCEPT !.analysis = a2])]
    IN  IF key_error \/ report_raises \/ ~EvaluatorHasComparisonReport
        THEN [s1 EXCEPT !.comparison_report = "error generating report"]
        ELSE [s1 EXCEPT !.comparison_report = "report"]

\* a submission that builds the report after every analysis:
\* C28_ReportOnlyAtTheEnd tells it from lines 165-198
C28_ReportOnEverySubmission(s, student_review, has_llm, grader, guidance_raises, report_raises) ==
    LET review_attempt == ReviewAttempt(student_review, s.current_iteration)
        s1 == [s EXCEPT !.review_history = Append(@, review_attempt)]
        analyzed == analyze_review_node(s1, TRUE, has_llm, grader, guidance_raises)
    IN  [analyzed EXCEPT
            !.state = _generate_review_feedback(analyzed.state, report_raises)]

\* lines 165-198
submit_review(s, student_review, has_llm, grader, guidance_raises, report_raises) ==
    LET review_attempt == ReviewAttempt(student_review, s.current_iteration)
        s1 == [s EXCEPT !.review_history = Append(@, review_attempt)]
        analyzed == analyze_review_node(s1, TRUE, has_llm, grader, guidance_raises)
        updated_state == analyzed.state
    IN  IF updated_state.current_iteration > updated_state.max_iterations
           \/ updated_state.review_sufficient
        THEN [analyzed EXCEPT
                !.state = _generate_review_feedback(updated_state, report_raises)]
        ELSE analyzed

----------------------------------------------------------------------------
(* ui/code_review.py and ui/review_tab.py: the two process_student_review *)

\* student_review.strip() is empty
IsBlank(student_review) == student_review = ""

\* ui/code_review.py: the review is handed to submit_review only past the
\* checks.  The format check calls evaluator.validate_review_format, a method
\* StudentResponseEvaluator does not have (only the tutorial class of
\* ui/tutorial_animation.py defines one): with the evaluator the manager
\* always attaches, line 278 raises AttributeError, the except clause of the
\* function reports it and the review is not submitted.
code_review_process_student_review(s, student_review) ==
    IF s.code_snippet = None THEN RRet(s, "rejected", "none", 0, FALSE)
    ELSE IF IsBlank(student_review) THEN RRet(s, "rejected", "none", 0, FALSE)
    ELSE RRet(s, "rejected", "AttributeError", 0, FALSE)

\* ui/review_tab.py: the same function without the format check
review_tab_process_student_review(s, student_review, has_llm, grader, guidance_raises, report_raises) ==
    IF s.code_snippet = None THEN RRet(s, "rejected", "none", 0, FALSE)
    ELSE IF IsBlank(student_review) THEN RRet(s, "rejected", "none", 0, FALSE)
    ELSE submit_review(s, student_review, has_llm, grader, guidance_raises,
                       report_raises)

----------------------------------------------------------------------------
(* workflow/conditions.py *)

\* a decision function's return value and the state it leaves behind
Decision(d, s) == [decision |-> d, state |-> s]

should_regenerate_or_review(s) ==
    IF s.current_step = "regenerate" THEN Decision("regenerate_code", s)
    ELSE IF s.evaluation_result # None /\ s.evaluation_result.valid
    THEN Decision("review_code", s)
    ELSE
    LET has_missing_errors == s.evaluation_result # None
                              /\ Len(s.evaluation_result.missing_errors) > 0
        has_extra_errors == s.evaluation_result # None
                            /\ Len(s.evaluation_result.extra_errors) > 0
        needs_regeneration == has_missing_errors \/ has_extra_errors
    IN  IF needs_regeneration /\ s.evaluation_attempts < s.max_evaluation_attempts
        THEN Decision("regenerate_code", s)
        ELSE Decision("review_code", s)

\* a decision function that advances the iteration itself when it sends the
\* student back to review: C21_DecisionsRepeat tells it from lines 89-113
C21_CountsTheIteration(s) ==
    IF s.current_iteration > s.max_iterations THEN Decision("generate_summary", s)
    ELSE IF s.review_sufficient THEN Decision("generate_summary", s)
    ELSE Decision("review_code", [s EXCEPT !.current_iteration = @ + 1])

\* lines 72-113
should_continue_review(s) ==
    IF s.current_iteration > s.max_iterations THEN Decision("generate_summary", s)
    ELSE IF s.review_sufficient THEN Decision("generate_summary", s)
    ELSE
    LET has_latest == Len(s.review_history) > 0
        analysis == IF has_latest THEN s.review_history[Len(s.review_history)].analysis
                    ELSE EmptyAnalysis
        identified_count == IF "identified_count" \in analysis.keys
                            THEN analysis.identified_count ELSE 0
        total_problems == IF "total_problems" \in analysis.keys
                          THEN analysis.total_problems ELSE 0
    IN  IF has_latest /\ analysis.keys # {}
           /\ identified_count = total_problems /\ total_problems > 0
        THEN Decision("generate_summary", [s EXCEPT !.review_sufficient = TRUE])
        ELSE Decision("review_code", s)

----------------------------------------------------------------------------
(* What the review grader's LLM answers *)

GraderCounts(s) == {0, 2, s.original_error_count}
GraderOutcomes(s) ==
    {[kind |-> k, identified_count |-> 0, has_total |-> FALSE, total_problems |-> 0,
      has_sufficient |-> FALSE, review_sufficient |-> FALSE] :
        k \in {"raises", "empty", "unparseable"}}
    \cup {[kind |-> "parsed", identified_count |-> i, has_total |-> ht,
           total_problems |-> IF ht THEN tp ELSE 0,
           has_sufficient |-> hs, review_sufficient |-> hs /\ rs] :
            i \in GraderCounts(s), ht \in BOOLEAN, tp \in {0, 3},
            hs \in BOOLEAN, rs \in BOOLEAN}

ReviewTexts == {"Line 3: off-by-one in the loop bound"}

----------------------------------------------------------------------------
(* The session *)

InitialState(max_eval, max_iter, difficulty, specific, categories) ==
    [current_step |-> "generate",
     code_snippet |-> None,
     evaluation_result |-> None,
     evaluation_attempts |-> 0,
     max_evaluation_attempts |-> max_eval,
     original_error_count |-> 0,
     code_generation_feedback |-> None,
     error |-> NoError,
     review_history |-> <<>>,
     current_iteration |-> 1,
     max_iterations |-> max_iter,
     review_sufficient |-> FALSE,
     comparison_report |-> "",
     difficulty_level |-> difficulty,
     selected_specific_errors |-> specific,
     selected_error_categories |-> categories]

\* what is recorded of the last call: the entry point, how it ended, what
\* raised, whether the generator's answer held no code, the grader calls
\* made, what the grader's LLM answered, the review_sufficient of the
\* analysis evaluate_review returned, the review text handed in and, for a
\* decision function, the decision it returned
NoCall == [op |-> "none", outcome |-> "none", raised |-> "none",
           no_code |-> FALSE, grader_calls |-> 0, grader |-> "none",
           reported |-> FALSE, text |-> "", decision |-> "none"]
Called(op, ret) ==
    [NoCall EXCEPT !.op = op, !.outcome = ret.outcome, !.raised = ret.raised,
                   !.no_code = ret.no_code]
CalledReview(op, ret, grader) ==
    [NoCall EXCEPT !.op = op, !.outcome = ret.outcome, !.raised = ret.raised,
                   !.grader_calls = ret.grader_calls,
                   !.grader = IF ret.grader_calls > 0 THEN grader.kind ELSE "none",
                   !.reported = ret.reported]
CalledWithText(op, ret, grader, text) ==
    [CalledReview(op, ret, grader) EXCEPT !.text = text]

\* the selection the student made: specific errors, or categories and a
\* difficulty (possibly with no category ticked)
Selections ==
    {[specific |-> Names(MaxSelected), categories |-> FALSE, difficulty |-> "medium"],
     [specific |-> <<>>, categories |-> FALSE, difficulty |-> "medium"]}
    \cup {[specific |-> <<>>, categories |-> TRUE, difficulty |-> d] :
            d \in Difficulties}

InitWith(max_evals, max_iters, selections, grader_llms) ==
    /\ \E max_eval \in max_evals, max_iter \in max_iters, sel \in selections :
         state = InitialState(max_eval, max_iter, sel.difficulty,
                              sel.specific, sel.categories)
    /\ generator_llm \in BOOLEAN
    /\ grader_llm \in grader_llms
    /\ generator_calls = 0
    /\ evaluator_calls = 0
    /\ last = NoCall
    /\ users_row = [reviews_completed |-> 0, score |-> 0]
    /\ session_state = {}

Init == InitWith(1..DefaultMaxEvaluationAttempts, {DefaultMaxIterations},
                 Selections, {TRUE})

\* what no call of the workflow writes: the attached LLMs, the user's row
\* and the session's stats keys
Environment == <<generator_llm, grader_llm, users_row, session_state>>
LoopCounters == <<generator_calls, evaluator_calls>>

\* one call of each entry point on the session's state
CallGenerate(ret) ==
    /\ state' = ret.state
    /\ last' = Called("generate", ret)

CallEvaluate(ret) ==
    /\ state' = ret.state
    /\ last' = Called("evaluate", ret)

CallRegenerate(ret) ==
    /\ state' = ret.state
    /\ last' = Called("regenerate", ret)

\* The entry points called directly, in any order
GenerateCode ==
    /\ Len(state.review_history) = 0
    /\ \E catalog \in CatalogOutcomes, generator \in GeneratorOutcomes :
         CallGenerate(generate_code_node(state, catalog, generator))
    /\ UNCHANGED <<LoopCounters, Environment>>

EvaluateCode ==
    /\ Len(state.review_history) = 0
    /\ state.evaluation_attempts <= state.max_evaluation_attempts
    /\ \E raw \in EvaluatorOutcomes, prompt_raises \in BOOLEAN :
         CallEvaluate(evaluate_code_node(state, raw, prompt_raises))
    /\ UNCHANGED <<LoopCounters, Environment>>

RegenerateCode ==
    /\ Len(state.review_history) = 0
    /\ \E catalog \in CatalogOutcomes, generator \in GeneratorOutcomes :
         CallRegenerate(regenerate_code_node(state, generator_llm, catalog, generator))
    /\ UNCHANGED <<LoopCounters, Environment>>

Next == GenerateCode \/ EvaluateCode \/ RegenerateCode

Spec == Init /\ [][Next]_vars

\* The generation loop driven by current_step: generate_code_node first,
\* then evaluate_code_node when the step is "evaluate" and
\* regenerate_code_node when it is "regenerate", until the step is "review".
\* The driver counts the generator and evaluator calls of the loop.
LoopGenerateWith(Catalogs, Generators) ==
    /\ last.op = "none"
    /\ \E catalog \in Catalogs, generator \in Generators :
         LET ret == generate_code_node(state, catalog, generator)
         IN  /\ CallGenerate(ret)
             /\ generator_calls' = generator_calls + ret.generator_calls
    /\ UNCHANGED <<evaluator_calls, Environment>>

LoopEvaluateWith(Raws, PromptRaises) ==
    /\ last.op # "none"
    /\ state.current_step = "evaluate"
    /\ evaluator_calls < MaxEvaluatorCalls
    /\ \E raw \in Raws, prompt_raises \in PromptRaises :
         LET ret == evaluate_code_node(state, raw, prompt_raises)
         IN  /\ CallEvaluate(ret)
             /\ evaluator_calls' = evaluator_calls + ret.evaluator_calls
    /\ UNCHANGED <<generator_calls, Environment>>

LoopRegenerateWith(Catalogs, Generators) ==
    /\ state.current_step = "regenerate"
    /\ generator_calls < MaxGeneratorCalls
    /\ \E catalog \in Catalogs, generator \in Generators :
         LET ret == regenerate_code_node(state, generator_llm, catalog, generator)
         IN  /\ CallRegenerate(ret)
             /\ generator_calls' = generator_calls + ret.generator_calls
    /\ UNCHANGED <<evaluator_calls, Environment>>

LoopGenerate == LoopGenerateWith(CatalogOutcomes, GeneratorOutcomes)
LoopEvaluate == LoopEvaluateWith(EvaluatorOutcomes, BOOLEAN)
LoopRegenerate == LoopRegenerateWith(CatalogOutcomes, GeneratorOutcomes)

NextLoop == LoopGenerate \/ LoopEvaluate \/ LoopRegenerate

SpecLoop == Init /\ [][NextLoop]_vars

\* The driven loop with collaborators that never raise: the catalog holds
\* some errors, the generator answers with code.
WorkingCatalogs == {c \in CatalogOutcomes : ~c.raises /\ c.available > 0}
WorkingGenerators ==
    {g \in GeneratorOutcomes : ~g.raises /\ g.response.annotated # ""}
WorkingSelections == {sel \in Selections : Len(sel.specific) > 0 \/ sel.categories}
InitScenario == InitWith(1..DefaultMaxEvaluationAttempts, {DefaultMaxIterations},
                         WorkingSelections, {TRUE})
ReportsMissing == {r \in EvaluatorOutcomes : r.kind = "dict" /\ Len(r.missing) > 0}
ReportsNoneMissing == {r \in EvaluatorOutcomes : r.kind = "dict" /\ Len(r.missing) = 0}

\* Scenario A: the evaluator reports a missing error on the first attempt
\* and none on the second
ScenarioAGenerate == LoopGenerateWith(WorkingCatalogs, WorkingGenerators)
ScenarioAEvaluate ==
    LoopEvaluateWith(IF evaluator_calls = 0 THEN ReportsMissing
                     ELSE ReportsNoneMissing, {FALSE})
ScenarioARegenerate == LoopRegenerateWith(WorkingCatalogs, WorkingGenerators)

NextScenarioA == ScenarioAGenerate \/ ScenarioAEvaluate \/ ScenarioARegenerate

SpecScenarioA == InitScenario /\ [][NextScenarioA]_vars

\* Scenario B: the evaluator reports a missing error on every attempt
ScenarioBGenerate == LoopGenerateWith(WorkingCatalogs, WorkingGenerators)
ScenarioBEvaluate == LoopEvaluateWith(ReportsMissing, {FALSE})
ScenarioBRegenerate == LoopRegenerateWith(WorkingCatalogs, WorkingGenerators)

NextScenarioB == ScenarioBGenerate \/ ScenarioBEvaluate \/ ScenarioBRegenerate

SpecScenarioB == InitScenario /\ [][NextScenarioB]_vars

----------------------------------------------------------------------------
(* A whole practice session: the code is generated and evaluated, then the *)
(* student submits reviews.  The generation steps are explored with one    *)
(* answer of each kind from the collaborators.                             *)

SessionSelections ==
    {[specific |-> Names(MaxSelected), categories |-> FALSE, difficulty |-> "medium"],
     [specific |-> <<>>, categories |-> TRUE, difficulty |-> "medium"]}

SessionCatalog == {[raises |-> FALSE, available |-> n] : n \in {0, MaxAvailable}}
SessionGenerator ==
    {[raises |-> TRUE, response |-> NoResponse],
     [raises |-> FALSE,
      response |-> [falsy |-> FALSE, annotated |-> "A", clean |-> "C", java |-> ""]]}
SessionEvaluator ==
    {[kind |-> "raises", found |-> <<>>, missing |-> <<>>, extra |-> <<>>],
     [kind |-> "dict", found |-> Names(MaxReported), missing |-> <<>>, extra |-> <<>>],
     [kind |-> "dict", found |-> <<>>, missing |-> Names(MaxReported), extra |-> <<>>]}

InitSession == InitWith({DefaultMaxEvaluationAttempts}, 1..MaxIterationsExplored,
                        SessionSelections, BOOLEAN)

SessionGenerate ==
    /\ Len(state.review_history) = 0
    /\ \E catalog \in SessionCatalog, generator \in SessionGenerator :
         CallGenerate(generate_code_node(state, catalog, generator))
    /\ UNCHANGED <<LoopCounters, Environment>>

SessionEvaluate ==
    /\ Len(state.review_history) = 0
    /\ state.current_step = "evaluate"
    /\ state.evaluation_attempts < state.max_evaluation_attempts
    /\ \E raw \in SessionEvaluator :
         CallEvaluate(evaluate_code_node(state, raw, FALSE))
    /\ UNCHANGED <<LoopCounters, Environment>>

SessionRegenerate ==
    /\ Len(state.review_history) = 0
    /\ state.current_step = "regenerate"
    /\ \E catalog \in SessionCatalog, generator \in SessionGenerator :
         CallRegenerate(regenerate_code_node(state, generator_llm, catalog, generator))
    /\ UNCHANGED <<LoopCounters, Environment>>

SubmitReviewWith(Graders) ==
    /\ Len(state.review_history) < MaxSubmissions
    /\ \E text \in ReviewTexts, grader \in Graders,
          guidance_raises \in BOOLEAN, report_raises \in BOOLEAN :
         LET ret == submit_review(state, text, grader_llm, grader,
                                  guidance_raises, report_raises)
         IN  /\ state' = ret.state
             /\ last' = CalledReview("submit_review", ret, grader)
    /\ UNCHANGED <<LoopCounters, Environment>>

SubmitReview == SubmitReviewWith(GraderOutcomes(state))

NextSession == SessionGenerate \/ SessionEvaluate \/ SessionRegenerate \/ SubmitReview

SpecSession == InitSession /\ [][NextSession]_vars

\* The session with analyze_review_node also called directly, on whatever
\* review_history holds, with or without the evaluator attached to the
\* nodes; the direct calls are explored until the iteration budget is used up
\* (with the answers of the grader's LLM that leave the count to the session)
PlainGraderOutcomes(s) ==
    {g \in GraderOutcomes(s) :
        g.kind = "raises" \/ (g.kind = "parsed" /\ ~g.has_total /\ ~g.has_sufficient)}

SubmitForAnalysis == SubmitReviewWith(PlainGraderOutcomes(state))

AnalyzeReview ==
    /\ state.current_iteration <= state.max_iterations
    /\ \E evaluator_attached \in BOOLEAN, grader \in PlainGraderOutcomes(state),
          guidance_raises \in BOOLEAN :
         LET ret == analyze_review_node(state, evaluator_attached, grader_llm,
                                        grader, guidance_raises)
         IN  /\ state' = ret.state
             /\ last' = CalledReview("analyze_review", ret, grader)
    /\ UNCHANGED <<LoopCounters, Environment>>

NextAnalyze ==
    \/ SessionGenerate \/ SessionEvaluate \/ SessionRegenerate
    \/ SubmitForAnalysis \/ AnalyzeReview

SpecAnalyze == InitSession /\ [][NextAnalyze]_vars

\* The ways a review text reaches the grader: submit_review called
\* directly (as the submission callback of ui/review_tab.py does) and the two
\* process_student_review functions, with an empty text, a text without any
\* "Line <N>:" entry and a text with one.
Unformatted == "looks fine to me"
PathTexts == {""} \cup {Unformatted} \cup ReviewTexts

PathGenerate ==
    /\ Len(state.review_history) = 0
    /\ \E catalog \in SessionCatalog, generator \in SessionGenerator :
         CallGenerate(generate_code_node(state, catalog, generator))
    /\ UNCHANGED <<LoopCounters, Environment>>

PathSubmitReview ==
    /\ Len(state.review_history) < MaxSubmissions
    /\ \E text \in PathTexts, grader \in PlainGraderOutcomes(state),
          guidance_raises \in BOOLEAN, report_raises \in BOOLEAN :
         LET ret == submit_review(state, text, grader_llm, grader,
                                  guidance_raises, report_raises)
         IN  /\ state' = ret.state
             /\ last' = CalledWithText("submit_review", ret, grader, text)
    /\ UNCHANGED <<LoopCounters, Environment>>

PathCodeReview ==
    /\ Len(state.review_history) < MaxSubmissions
    /\ \E text \in PathTexts, grader \in PlainGraderOutcomes(state) :
         LET ret == code_review_process_student_review(state, text)
         IN  /\ state' = ret.state
             /\ last' = CalledWithText("code_review.process_student_review",
                                       ret, grader, text)
    /\ UNCHANGED <<LoopCounters, Environment>>

PathReviewTab ==
    /\ Len(state.review_history) < MaxSubmissions
    /\ \E text \in PathTexts, grader \in PlainGraderOutcomes(state),
          guidance_raises \in BOOLEAN, report_raises \in BOOLEAN :
         LET ret == review_tab_process_student_review(
                        state, text, grader_llm, grader, guidance_raises,
                        report_raises)
         IN  /\ state' = ret.state
             /\ last' = CalledWithText("review_tab.process_student_review",
                                       ret, grader, text)
    /\ UNCHANGED <<LoopCounters, Environment>>

NextPaths == PathGenerate \/ PathSubmitReview \/ PathCodeReview \/ PathReviewTab

SpecPaths == InitSession /\ [][NextPaths]_vars

----------------------------------------------------------------------------
(* The generation loop *)

\* C1: the driven generation loop makes at most max_evaluation_attempts + 1
\* calls to the code generator, whatever the evaluator reports and whether
\* or not the generator has an LLM attached.
C1_GeneratorCallsBounded ==
    generator_calls <= state.max_evaluation_attempts + 1

\* C2: with max_evaluation_attempts = 3 and an evaluator that reports a
\* missing error on every attempt, the loop is in "review" after exactly 3
\* evaluations, there is no 4th evaluation, and state.error stays unset.
C2_ScenarioB ==
    state.max_evaluation_attempts = DefaultMaxEvaluationAttempts =>
        /\ state.error = NoError
        /\ evaluator_calls <= DefaultMaxEvaluationAttempts
        /\ (state.current_step = "review" =>
                /\ evaluator_calls = DefaultMaxEvaluationAttempts
                /\ state.evaluation_attempts = DefaultMaxEvaluationAttempts)

\* C3: when the evaluator reports one missing error on attempt 1 and none on
\* attempt 2, regenerate_code_node moves the step to "evaluate" without
\* setting state.error, and the loop ends in "review" with
\* evaluation_attempts = 2 and a valid evaluation result.
C3_ScenarioA ==
    state.max_evaluation_attempts >= 2 =>
        /\ (last.op = "regenerate" =>
                state.current_step = "evaluate" /\ state.error = NoError)
        /\ (state.current_step = "review" =>
                /\ state.evaluation_attempts = 2
                /\ state.evaluation_result.valid)

----------------------------------------------------------------------------
(* evaluate_code_node *)

\* C4: after every evaluate_code_node call that completes without an
\* exception, current_step is "review" if the stored result is valid,
\* "regenerate" if it is not valid and the incremented evaluation_attempts
\* is below max_evaluation_attempts, and "review" otherwise.
C4_StepAfterEvaluation ==
    (last.op = "evaluate" /\ last.outcome = "returned") =>
        state.current_step =
            (IF state.evaluation_result.valid THEN "review"
             ELSE IF state.evaluation_attempts < state.max_evaluation_attempts
             THEN "regenerate"
             ELSE "review")

\* C5: in every evaluation_result stored by evaluate_code_node, valid is
\* true if and only if missing_errors is empty, for a dict or a non-dict
\* answer of the evaluator and for every requested-error list.
C5_ValidIffNoneMissing ==
    state.evaluation_result # None =>
        (state.evaluation_result.valid
            <=> Len(state.evaluation_result.missing_errors) = 0)

\* C6 as stated: every call of evaluate_code_node increases
\* evaluation_attempts by exactly one, the early return for a missing code
\* snippet and the calls in which the evaluator raises included.
C6_AttemptsPerCall ==
    [][last'.op = "evaluate" =>
            state'.evaluation_attempts = state.evaluation_attempts + 1]_vars

\* C6: a call of evaluate_code_node that stores an evaluation result
\* increases evaluation_attempts by exactly one; a call that returns early
\* because no code snippet is present, or in which the evaluator raises,
\* leaves evaluation_attempts unchanged.  (The calls that store a result are
\* the ones that return past line 293 and the ones in which building the
\* feedback prompt raises after it.)
C6_AttemptsPerStoredResult ==
    [][last'.op = "evaluate" =>
            state'.evaluation_attempts =
                (IF last'.outcome = "returned" \/ last'.raised = "prompt"
                 THEN state.evaluation_attempts + 1
                 ELSE state.evaluation_attempts)]_vars

\* an evaluation was stored, and the evaluator raised in the call after it
C6_RaisedAfterStoredResult ==
    /\ last.op = "evaluate"
    /\ last.raised = "evaluator"
    /\ state.evaluation_result # None
    /\ state.evaluation_attempts = 1

----------------------------------------------------------------------------
(* Failures *)

\* C7: when the generator's LLM call raises, or answers with text from which
\* no code block can be extracted, generate_code_node leaves
\* state.code_snippet unset, sets state.error and does not advance
\* current_step to "evaluate".
C7_GenerationFailure ==
    [][(/\ last'.op = "generate"
        /\ (last'.raised = "generator" \/ last'.no_code)
        /\ state.code_snippet = None
        /\ state.current_step = "generate") =>
            /\ state'.code_snippet = None
            /\ state'.error # NoError
            /\ state'.current_step = "generate"]_vars

\* C8: a generate_code_node call that fails (state.error set by the call)
\* leaves evaluation_result, evaluation_attempts and
\* code_generation_feedback as the earlier steps produced them.
C8_FailedGenerationKeepsEvaluation ==
    [][(last'.op = "generate" /\ last'.outcome \in {"early", "caught"}) =>
            /\ state'.evaluation_result = state.evaluation_result
            /\ state'.evaluation_attempts = state.evaluation_attempts
            /\ state'.code_generation_feedback = state.code_generation_feedback]_vars

\* C9: for generate_code_node, evaluate_code_node and regenerate_code_node,
\* when a collaborator (catalog, generator, evaluator) raises, the call
\* returns the state through its except clause with state.error set and
\* current_step as it was before the call.
C9_CollaboratorFailureCaught ==
    [][(/\ last'.op \in {"generate", "evaluate", "regenerate"}
        /\ last'.raised \in {"catalog", "generator", "evaluator"}) =>
            /\ last'.outcome = "caught"
            /\ state'.error # NoError
            /\ state'.current_step = state.current_step]_vars

\* the generator raised inside regenerate_code_node
C9_GeneratorRaisedInRegenerate ==
    /\ last.op = "regenerate"
    /\ last.raised = "generator"
    /\ last.outcome = "caught"
    /\ state.error # NoError
    /\ state.current_step = "regenerate"

\* C10: when the grading LLM call inside submit_review raises or answers
\* with data that cannot be parsed, state.error is set, the submitted
\* ReviewAttempt's analysis stays empty and current_iteration is not
\* incremented.
C10_GradingFailure ==
    [][(/\ last'.op = "submit_review"
        /\ last'.grader_calls > 0
        /\ last'.grader \in {"raises", "unparseable"}) =>
            /\ state'.error # NoError
            /\ state'.review_history[Len(state'.review_history)].analysis.keys = {}
            /\ state'.current_iteration = state.current_iteration]_vars

----------------------------------------------------------------------------
(* The review loop *)

\* C11: after every return of submit_review, successful or failed and after
\* any number of calls, len(review_history) = current_iteration - 1.
C11_HistoryLengthIsIterationMinusOne ==
    last.op = "submit_review" =>
        Len(state.review_history) = state.current_iteration - 1

\* C12: after any sequence of submit_review calls, every ReviewAttempt of
\* review_history has iteration_number equal to its 1-based position, and no
\* two attempts share an iteration_number.
C12_IterationNumberIsPosition ==
    /\ \A i \in 1..Len(state.review_history) :
           state.review_history[i].iteration_number = i
    /\ \A i, j \in 1..Len(state.review_history) :
           state.review_history[i].iteration_number
               = state.review_history[j].iteration_number => i = j

\* C13: every ReviewAttempt of review_history that was graded has
\* analysis.total_problems equal to state.original_error_count, whatever
\* total_problems the grader answered and for every original_error_count,
\* 0 included.
C13_TotalProblemsIsOriginalCount ==
    \A i \in 1..Len(state.review_history) :
        state.review_history[i].analysis.keys # {} =>
            /\ "total_problems" \in state.review_history[i].analysis.keys
            /\ state.review_history[i].analysis.total_problems
                   = state.original_error_count

\* C14: when state.original_error_count = 0, a graded review has
\* identified_percentage = 100, whatever identified_count and total_problems
\* the grader answered, the grader-failure fallback included.
C14_VacuousPassAtZero ==
    \A i \in 1..Len(state.review_history) :
        (state.original_error_count = 0
         /\ state.review_history[i].analysis.keys # {}) =>
            /\ "identified_percentage" \in state.review_history[i].analysis.keys
            /\ PctEq(state.review_history[i].analysis.identified_percentage, 100)

\* C15: after a successful analyze step, state.review_sufficient is true if
\* and only if the grader's analysis reports review_sufficient or
\* identified_count = state.original_error_count, for every
\* original_error_count, 0 included.
C15_SufficientIffReportedOrAllFound ==
    (last.op = "submit_review" /\ last.outcome = "returned") =>
        LET latest == state.review_history[Len(state.review_history)]
        IN  state.review_sufficient
                <=> (last.reported
                     \/ latest.analysis.identified_count = state.original_error_count)

C18_ReviewLoopTerminates ==
    (last.op = "submit_review" /\ state.error = NoError) =>
        LET latest == state.review_history[Len(state.review_history)]
            all_identified == "identified_count" \in latest.analysis.keys
                              /\ latest.analysis.identified_count
                                     = state.original_error_count
        IN  (Len(state.review_history) >= state.max_iterations \/ all_identified)
                => should_continue_review(state).decision = "generate_summary"

\* C19: once the review loop has terminated (review_sufficient is true or
\* current_iteration > max_iterations), a further submit_review call is not
\* accepted: it leaves review_history, current_iteration and
\* review_sufficient unchanged and makes no grader call.
C19_NoSubmissionAfterTermination ==
    [][(/\ last'.op = "submit_review"
        /\ (state.review_sufficient
            \/ state.current_iteration > state.max_iterations)) =>
            /\ state'.review_history = state.review_history
            /\ state'.current_iteration = state.current_iteration
            /\ state'.review_sufficient = state.review_sufficient
            /\ last'.grader_calls = 0]_vars

\* C20: a review text that contains no "Line <N>:"-style entry is rejected
\* before grading on every submission path (WorkflowManager.submit_review
\* and both process_student_review functions): no grader call is made, no
\* ReviewAttempt is appended to review_history and current_iteration is
\* unchanged.
C20_UnformattedReviewRejected ==
    [][(/\ last'.op \in {"submit_review", "code_review.process_student_review",
                         "review_tab.process_student_review"}
        /\ last'.text = Unformatted) =>
            /\ last'.grader_calls = 0
            /\ state'.review_history = state.review_history
            /\ state'.current_iteration = state.current_iteration]_vars

----------------------------------------------------------------------------
(* The session with the two decision functions of workflow/conditions.py   *)
(* consulted in between, as the conditional edges of the graph consult     *)
(* them: each is handed the session's state object and may write to it.    *)
(* The grader's LLM also gives an answer that counts everything it listed  *)
(* as identified and still reports the review as not sufficient.           *)

AllOfOwnTotal ==
    [kind |-> "parsed", identified_count |-> 2, has_total |-> TRUE,
     total_problems |-> 2, has_sufficient |-> TRUE, review_sufficient |-> FALSE]

DecisionGraderOutcomes(s) == PlainGraderOutcomes(s) \cup {AllOfOwnTotal}

SubmitForDecision == SubmitReviewWith(DecisionGraderOutcomes(state))

CallDecision(op, d) ==
    /\ state' = d.state
    /\ last' = [NoCall EXCEPT !.op = op, !.decision = d.decision]

DecideRegenerateOrReview ==
    /\ CallDecision("should_regenerate_or_review", should_regenerate_or_review(state))
    /\ UNCHANGED <<LoopCounters, Environment>>

DecideContinueReview ==
    /\ CallDecision("should_continue_review", should_continue_review(state))
    /\ UNCHANGED <<LoopCounters, Environment>>

NextDecisions ==
    \/ SessionGenerate \/ SessionEvaluate \/ SessionRegenerate
    \/ SubmitForDecision \/ DecideRegenerateOrReview \/ DecideContinueReview

SpecDecisions == InitSession /\ [][NextDecisions]_vars

\* the latest analysis of the session, EmptyAnalysis before any review
LatestAnalysis(s) ==
    IF Len(s.review_history) > 0
    THEN s.review_history[Len(s.review_history)].analysis
    ELSE EmptyAnalysis

(* C21: a decision function called twice in a row gives the same decision  *)
(* both times: in the state a call of should_regenerate_or_review or of    *)
(* should_continue_review has left behind, a second call of the same       *)
(* function returns the decision the first call returned.                  *)
C21_DecisionsRepeat ==
    /\ last.op = "should_regenerate_or_review"
         => should_regenerate_or_review(state).decision = last.decision
    /\ last.op = "should_continue_review"
         => should_continue_review(state).decision = last.decision

\* the first call has written review_sufficient: the analysis says not
\* sufficient, the state says sufficient
C21_RepeatedAfterWrite ==
    /\ last.op = "should_continue_review"
    /\ last.decision = "generate_summary"
    /\ state.current_iteration <= state.max_iterations
    /\ state.review_sufficient
    /\ ~LatestAnalysis(state).review_sufficient

(* C22: the decision functions are pure: a call of                          *)
(* should_regenerate_or_review or of should_continue_review leaves every   *)
(* field of the state, review_sufficient included, as it was.              *)
C22_DecisionsArePure ==
    [][last'.op \in {"should_regenerate_or_review", "should_continue_review"}
         => state' = state]_vars

(* C23: should_continue_review returns 'generate_summary' exactly when the  *)
(* state it is handed has review_sufficient true or current_iteration >    *)
(* max_iterations, and 'review_code' otherwise.                            *)
C23_SummaryIffSufficientOrOutOfIterations ==
    [][last'.op = "should_continue_review"
         => /\ last'.decision \in {"generate_summary", "review_code"}
            /\ last'.decision = "generate_summary"
                 <=> (state.review_sufficient
                      \/ state.current_iteration > state.max_iterations)]_vars

----------------------------------------------------------------------------
(* The generation loop in category-based mode, at every difficulty, with a *)
(* catalog whose selected categories hold at least as many errors as the   *)
(* largest count asked for.                                                *)

EnoughCatalogs ==
    {[raises |-> FALSE, available |-> n] : n \in HardErrorCount..MaxAvailable}
CategorySelections == {sel \in Selections : sel.categories}
InitCategories == InitWith(1..DefaultMaxEvaluationAttempts, {DefaultMaxIterations},
                           CategorySelections, {TRUE})

CategoryGenerate == LoopGenerateWith(EnoughCatalogs, GeneratorOutcomes)
CategoryEvaluate == LoopEvaluateWith(EvaluatorOutcomes, BOOLEAN)
CategoryRegenerate == LoopRegenerateWith(EnoughCatalogs, GeneratorOutcomes)

NextCategories == CategoryGenerate \/ CategoryEvaluate \/ CategoryRegenerate

SpecCategories == InitCategories /\ [][NextCategories]_vars

(* C24: in category-based mode with a catalog that has enough errors, a     *)
(* generate_code_node call that returns a snippet has selected and         *)
(* recorded 2 errors at difficulty easy, 4 at medium and 6 at hard:        *)
(* raw_errors, expected_error_count and original_error_count all have that *)
(* count.                                                                  *)
C24_CountFollowsDifficulty ==
    (last.op = "generate" /\ last.outcome = "returned")
        => /\ state.original_error_count = difficulty_map(state.difficulty_level)
           /\ state.code_snippet.expected_error_count
                = difficulty_map(state.difficulty_level)
           /\ Len(state.code_snippet.raw_errors)
                = difficulty_map(state.difficulty_level)

(* C25: original_error_count is fixed at generation time: once             *)
(* generate_code_node has stored a snippet, no call of evaluate_code_node,  *)
(* regenerate_code_node (with or without an LLM attached to the generator)  *)
(* or submit_review changes state.original_error_count.                    *)
C25_OriginalCountFixed ==
    [][(state.code_snippet # None
        /\ last'.op \in {"evaluate", "regenerate", "submit_review"})
         => state'.original_error_count = state.original_error_count]_vars

(* C26: state.error is sticky: once a call has set it, no later call of     *)
(* generate_code_node, evaluate_code_node, regenerate_code_node,            *)
(* analyze_review_node or submit_review puts it back to null, not even a    *)
(* call that succeeds.                                                      *)
C26_ErrorIsSticky ==
    [][state.error # NoError => state'.error # NoError]_vars

\* a submission that went through with the error of an earlier call still
\* on the state
C26_OldErrorAfterSuccessfulSubmission ==
    /\ last.op = "submit_review"
    /\ last.outcome = "returned"
    /\ last.raised = "none"
    /\ state.error # NoError

(* C27: the decision function and the step field never disagree: in every  *)
(* state evaluate_code_node returns without an exception,                   *)
(* should_regenerate_or_review returns 'regenerate_code' if and only if    *)
(* current_step is 'regenerate', whatever the evaluator answered (missing   *)
(* errors, extra errors, both, neither, or something that is not a dict)    *)
(* and whatever the attempt count is.                                       *)
C27_DecisionAgreesWithStep ==
    (last.op = "evaluate" /\ last.outcome \in {"returned", "early"})
        => (should_regenerate_or_review(state).decision = "regenerate_code"
              <=> state.current_step = "regenerate")

\* an evaluation that reported extra errors and no missing one, with
\* attempts left: the step is 'review' and the decision is 'review_code'
C27_ExtraErrorsOnly ==
    /\ last.op = "evaluate"
    /\ last.outcome = "returned"
    /\ Len(state.evaluation_result.extra_errors) > 0
    /\ Len(state.evaluation_result.missing_errors) = 0
    /\ state.evaluation_attempts < state.max_evaluation_attempts
    /\ state.current_step = "review"
    /\ should_regenerate_or_review(state).decision = "review_code"

(* C28: submit_review sets state.comparison_report only when, after the    *)
(* analysis, review_sufficient is true or current_iteration >              *)
(* max_iterations; and a comparison_report that is already set is left as   *)
(* it is by every later submit_review call.                                 *)
C28_ReportOnlyAtTheEnd ==
    [][last'.op = "submit_review"
         => /\ (state.comparison_report = "" /\ state'.comparison_report # "")
                 => (state'.review_sufficient
                     \/ state'.current_iteration > state'.max_iterations)
            /\ state.comparison_report # ""
                 => state'.comparison_report = state.comparison_report]_vars

\* a review analysed after the report was written: the report is still there
C28_SubmissionAfterReport ==
    /\ last.op = "submit_review"
    /\ last.outcome = "returned"
    /\ Len(state.review_history) > 1
    /\ state.evaluation_result # None
    /\ "identified_count" \in state.review_history[1].analysis.keys
    /\ (state.review_history[1].analysis.review_sufficient
        \/ state.max_iterations = 1)
    /\ state.comparison_report # ""

----------------------------------------------------------------------------
(* auth/mysql_auth.py, ui/auth_ui.py, ui/feedback_tab.py and               *)
(* ui/feedback_system.py: the feedback tab and the statistics update       *)

\* What the database does during MySQLAuthManager.update_review_stats: the
\* connection is missing, the user's row is not found, the UPDATE reports
\* no result, a call raises before the UPDATE, a call of the badge
\* bookkeeping that follows the UPDATE raises, or everything goes through.
DbOutcomes ==
    {"ok", "no_connection", "user_not_found", "update_failed",
     "raises_before_update", "raises_after_update"}

\* who is logged in: nobody, the demo user, a student with a row
Users == {"anonymous", "demo-user", "student"}

\* what a statistics update gives back: the row it leaves, the result it
\* returns ("none" when it raised)
StatsRet(row, result, raised) == [row |-> row, result |-> result, raised |-> raised]

\* auth/mysql_auth.py, update_review_stats
update_review_stats(row, score, db) ==
    LET written == [reviews_completed |-> row.reviews_completed + 1,
                    score |-> row.score + score]
    IN  CASE db = "no_connection" -> StatsRet(row, "failure", FALSE)
          [] db = "raises_before_update" -> StatsRet(row, "none", TRUE)
          [] db = "user_not_found" -> StatsRet(row, "failure", FALSE)
          [] db = "update_failed" -> StatsRet(row, "failure", FALSE)
          [] db = "raises_after_update" -> StatsRet(written, "none", TRUE)
          [] OTHER -> StatsRet(written, "success", FALSE)

\* ui/auth_ui.py, AuthUI.update_review_stats
auth_ui_update_review_stats(row, user, score, db) ==
    IF user = "anonymous" THEN StatsRet(row, "failure", FALSE)
    ELSE IF user = "demo-user" THEN StatsRet(row, "success", FALSE)
    ELSE update_review_stats(row, score, db)

\* ui/feedback_tab.py lines 118-157 and ui/feedback_system.py lines 517-558:
\* the update under the stats key; the key is stored once the update has
\* returned, whatever it returned
UpdateStatsOnce(keys, row, stats_key, identified_count, user, db) ==
    IF stats_key \in keys
    THEN [keys |-> keys, row |-> row, raised |-> "none"]
    ELSE LET result == auth_ui_update_review_stats(row, user, identified_count, db)
         IN  IF result.raised
             THEN [keys |-> keys, row |-> result.row, raised |-> "stats"]
             ELSE [keys |-> keys \cup {stats_key}, row |-> result.row,
                   raised |-> "none"]

\* what a rendering of the feedback tab leaves behind
RenderRet(s, keys, row, how, raised) ==
    [state |-> s, keys |-> keys, row |-> row, outcome |-> how, raised |-> raised]

IdentifiedCount(analysis) ==
    IF "identified_count" \in analysis.keys THEN analysis.identified_count ELSE 0

TotalProblems(analysis) ==
    IF "total_problems" \in analysis.keys THEN analysis.total_problems ELSE 0

AllIdentified(s) ==
    /\ Len(s.review_history) > 0
    /\ IdentifiedCount(LatestAnalysis(s)) = TotalProblems(LatestAnalysis(s))
    /\ TotalProblems(LatestAnalysis(s)) > 0

\* ui/feedback_tab.py, render_feedback_tab.  Without an auth_ui or without
\* an analysis, stats_key is never bound and line 116 raises.
render_feedback_tab(s, keys, row, has_auth_ui, user, db, report_raises) ==
    LET review_completed == \/ s.current_iteration > s.max_iterations
                            \/ s.review_sufficient
                            \/ AllIdentified(s)
        s1 == IF AllIdentified(s) THEN [s EXCEPT !.review_sufficient = TRUE] ELSE s
        latest_analysis == LatestAnalysis(s1)
        s2 == IF latest_analysis.keys # {} /\ s1.comparison_report = ""
                 /\ s1.evaluation_result # None
              THEN [s1 EXCEPT !.comparison_report =
                        IF report_raises THEN "error generating report"
                        ELSE "report"]
              ELSE s1
        identified_count == IdentifiedCount(latest_analysis)
        stats_key == <<s2.current_iteration, identified_count>>
        updated == UpdateStatsOnce(keys, row, stats_key, identified_count, user, db)
    IN  IF ~review_completed THEN RenderRet(s1, keys, row, "blocked", "none")
        ELSE IF ~(has_auth_ui /\ latest_analysis.keys # {})
        THEN RenderRet(s2, keys, row, "raised", "NameError")
        ELSE RenderRet(s2, updated.keys, updated.row, "returned", updated.raised)

\* ui/feedback_system.py, FeedbackSystem.render_feedback_tab: the same tab
\* as a class.  _check_review_completion reads the counts of the latest
\* analysis by key, and the report comes from the evaluator's missing
\* generate_comparison_report.
feedback_system_render_feedback_tab(s, keys, row, has_auth_ui, user, db) ==
    LET latest_analysis == LatestAnalysis(s)
        review_completed == \/ s.current_iteration > s.max_iterations
                            \/ s.review_sufficient
                            \/ AllIdentified(s)
        s1 == IF latest_analysis.keys # {} /\ s.comparison_report = ""
                 /\ s.evaluation_result # None
              THEN [s EXCEPT !.comparison_report =
                        IF EvaluatorHasComparisonReport THEN "report"
                        ELSE "error generating report"]
              ELSE s
        identified_count == IdentifiedCount(latest_analysis)
        stats_key == <<s1.current_iteration, identified_count>>
        updated == UpdateStatsOnce(keys, row, stats_key, identified_count, user, db)
    IN  IF Len(s.review_history) > 0
           /\ {"identified_count", "total_problems"} \ latest_analysis.keys # {}
        THEN RenderRet(s, keys, row, "raised", "KeyError")
        ELSE IF ~review_completed THEN RenderRet(s, keys, row, "blocked", "none")
        ELSE IF ~(has_auth_ui /\ latest_analysis.keys # {})
        THEN RenderRet(s1, keys, row, "returned", "none")
        ELSE RenderRet(s1, updated.keys, updated.row, "returned", updated.raised)

\* A session as the tabs drive it: the review tab offers the submission
\* only while the review is open (ui/review_tab.py line 177), the feedback
\* tab is rendered any number of times.
ReviewOpen(s) ==
    /\ s.current_iteration <= s.max_iterations
    /\ ~s.review_sufficient
    /\ ~(LatestAnalysis(s).keys # {} /\ AllIdentified(s))

TabSubmitReview ==
    /\ state.code_snippet # None
    /\ ReviewOpen(state)
    /\ SubmitReviewWith(DecisionGraderOutcomes(state))

Rendered(ret) ==
    /\ state' = ret.state
    /\ session_state' = ret.keys
    /\ users_row' = ret.row
    /\ last' = [NoCall EXCEPT !.op = "render_feedback_tab",
                              !.outcome = ret.outcome, !.raised = ret.raised]
    /\ UNCHANGED <<LoopCounters, generator_llm, grader_llm>>

RenderFeedbackTab ==
    /\ users_row.reviews_completed < MaxStatsWrites
    /\ \E has_auth_ui \in BOOLEAN, user \in Users, db \in DbOutcomes,
          report_raises \in BOOLEAN :
         Rendered(render_feedback_tab(state, session_state, users_row,
                                      has_auth_ui, user, db, report_raises))

RenderFeedbackSystem ==
    /\ users_row.reviews_completed < MaxStatsWrites
    /\ \E has_auth_ui \in BOOLEAN, user \in Users, db \in DbOutcomes :
         Rendered(feedback_system_render_feedback_tab(state, session_state,
                                                      users_row, has_auth_ui,
                                                      user, db))

NextFeedback ==
    \/ SessionGenerate \/ SessionEvaluate \/ SessionRegenerate
    \/ TabSubmitReview \/ RenderFeedbackTab \/ RenderFeedbackSystem

SpecFeedback == InitSession /\ [][NextFeedback]_vars

(* C29: for one completed review session the user's persistent score is    *)
(* increased by the final identified_count at most once, however often the *)
(* feedback tab is rendered and whether or not the statistics update       *)
(* returns a failure or raises after the row was written: the score never  *)
(* exceeds the identified_count of the latest analysis.                    *)
C29_ScoreAddedAtMostOnce ==
    users_row.score <= IdentifiedCount(LatestAnalysis(state))

----------------------------------------------------------------------------
(* The session with a grader's LLM that always answers with an analysis    *)
(* and never says itself whether the review is sufficient: the evaluator   *)
(* derives review_sufficient from its percentage threshold.                *)

ThresholdGraderOutcomes(s) ==
    {g \in GraderOutcomes(s) : g.kind = "parsed" /\ ~g.has_sufficient}

SubmitForThreshold == SubmitReviewWith(ThresholdGraderOutcomes(state))

NextThreshold ==
    \/ SessionGenerate \/ SessionEvaluate \/ SessionRegenerate
    \/ SubmitForThreshold

SpecThreshold == InitSession /\ [][NextThreshold]_vars

(* C30: when the grader does not itself report review_sufficient, the       *)
(* sufficiency derived from the 60% threshold agrees with the percentage    *)
(* stored on the attempt: after a submission the grader's LLM has analysed, *)
(* review_sufficient is true if and only if the stored                      *)
(* identified_percentage (identified_count / original_error_count * 100)    *)
(* is at least 60, whatever total_problems the grader returned and however  *)
(* many known problems there are.                                           *)
C30_SufficientIffStoredPercentageAtLeast60 ==
    (/\ last.op = "submit_review"
     /\ last.outcome = "returned"
     /\ last.grader = "parsed"
     /\ "identified_percentage" \in LatestAnalysis(state).keys)
        => (state.review_sufficient
              <=> PctGeq(LatestAnalysis(state).identified_percentage,
                         MinIdentifiedPercentage))

====
